---- MODULE Spec2Model ----
(***************************************************************************)
(* Metals dashboard: the data pipeline of scripts/update_daily.js and      *)
(* scripts/backfill_5y.js (the persisted series and meta documents) and    *)
(* the chart pipeline of app.js (range window, normalisation, traces).     *)
(*                                                                         *)
(* Representation.  A JavaScript Date that holds a UTC midnight is its     *)
(* number of days since 1970-01-01 (time value / 86400000; TLC integers    *)
(* are 32 bits wide, the millisecond value is not representable).  An ISO  *)
(* date string "YYYY-MM-DD" of a four-digit year is the number YYYYMMDD    *)
(* read off its digits: string equality is number equality and the        *)
(* lexicographic order of the strings is the order of the numbers.         *)
(***************************************************************************)
EXTENDS Integers, Sequences, FiniteSets, TLC

VARIABLES
  cStart, cEnd, cDays, cOut, cDone,   \* chunkRanges: arguments, result, called
  rNow, rCode, rOut, rDone,           \* rangeStart: today, range code, result
  nIn, nOut, nDone,                   \* normalize: argument, result, called
  mE, mI, mOut, mDone,                \* mergeRows: arguments, result, called
  seriesExists, seriesRows,           \* data/series.json: whether it exists, its rows
  metaDoc,                            \* data/meta.json
  today, clock,                       \* the UTC day, and the instant of new Date()
  pc,                                 \* the script that is running, or "idle"
  dDate, dRows, dMeta, latest,        \* update_daily.js main: date, series.rows, meta, latest.rates
  bRanges, bIdx, allRows,             \* backfill_5y.js main: ranges, the chunk awaited, allRows
  snapExists, snapRows, snapMeta,     \* history: the documents when the running script started
  fetchErr, outcome,                  \* history: a fetch or validation error occurred; how the last run ended
  dailyDates, rerun,                  \* history: the dates of the daily updates that succeeded; the last one was a re-run
  state,                              \* app.js: the state object
  chips,                              \* app.js: the codes of the chip buttons in #chips
  traces,                             \* app.js: the traces last given to Plotly.react
  phase                               \* app.js init: "loading", "ready" or "failed"

chunkVars == <<cStart, cEnd, cDays, cOut, cDone>>
rangeVars == <<rNow, rCode, rOut, rDone>>
normVars  == <<nIn, nOut, nDone>>
mergeVars == <<mE, mI, mOut, mDone>>

storeVars == <<seriesExists, seriesRows, metaDoc, today, clock, pc,
               dDate, dRows, dMeta, latest, bRanges, bIdx, allRows,
               snapExists, snapRows, snapMeta, fetchErr, outcome,
               dailyDates, rerun>>

uiVars == <<state, chips, traces, phase>>

vars == <<chunkVars, rangeVars, normVars, mergeVars, storeVars, uiVars>>

\* The variables of a part of the program that a specification does not run.
ChunkIdle == cStart = 0 /\ cEnd = 0 /\ cDays = 0 /\ cOut = <<>> /\ cDone = FALSE
RangeIdle == rNow = 0 /\ rCode = "" /\ rOut = 0 /\ rDone = FALSE
NormIdle  == nIn = <<>> /\ nOut = <<>> /\ nDone = FALSE
MergeIdle == mE = <<>> /\ mI = <<>> /\ mOut = <<>> /\ mDone = FALSE
NoMeta    == [exists |-> FALSE, last_updated_utc |-> 0, notes |-> FALSE]
StoreIdle ==
  /\ seriesExists = FALSE /\ seriesRows = <<>> /\ metaDoc = NoMeta
  /\ today = 0 /\ clock = 0 /\ pc = "idle"
  /\ dDate = 0 /\ dRows = <<>> /\ dMeta = NoMeta /\ latest = <<>>
  /\ bRanges = <<>> /\ bIdx = 0 /\ allRows = <<>>
  /\ snapExists = FALSE /\ snapRows = <<>> /\ snapMeta = NoMeta
  /\ fetchErr = FALSE /\ outcome = "none"
  /\ dailyDates = {} /\ rerun = FALSE
UiIdle == state = <<>> /\ chips = <<>> /\ traces = <<>> /\ phase = "off"

-----------------------------------------------------------------------------
(* ECMAScript date arithmetic (proleptic Gregorian calendar, UTC).         *)

\* Day number of year y, month m (1..12), day d (ECMAScript MakeDay for an
\* in-range month).
DaysFromCivil(y, m, d) ==
  LET yy  == IF m <= 2 THEN y - 1 ELSE y
      era == yy \div 400
      yoe == yy - era * 400
      mp  == (m + 9) % 12
      doy == (153 * mp + 2) \div 5 + d - 1
      doe == yoe * 365 + yoe \div 4 - yoe \div 100 + doy
  IN  era * 146097 + doe - 719468

\* [y, m, d] of a day number: getUTCFullYear, getUTCMonth() + 1, getUTCDate.
CivilFromDays(z) ==
  LET zz  == z + 719468
      era == zz \div 146097
      doe == zz - era * 146097
      yoe == (doe - doe \div 1460 + doe \div 36524 - doe \div 146096) \div 365
      doy == doe - (365 * yoe + yoe \div 4 - yoe \div 100)
      mp  == (5 * doy + 2) \div 153
      d   == doy - (153 * mp + 2) \div 5 + 1
      m   == IF mp < 10 THEN mp + 3 ELSE mp - 9
      y   == yoe + era * 400 + (IF m <= 2 THEN 1 ELSE 0)
  IN  [y |-> y, m |-> m, d |-> d]

\* Date.UTC(year, monthIndex, date): the month index and the date may lie
\* outside their ranges and carry over into the neighbouring months and years.
DateUTC(y, mIdx, d) ==
  DaysFromCivil(y + (mIdx \div 12), (mIdx % 12) + 1, 1) + d - 1

getUTCFullYear(t) == CivilFromDays(t).y
getUTCMonth(t)    == CivilFromDays(t).m - 1
getUTCDate(t)     == CivilFromDays(t).d

-----------------------------------------------------------------------------
(* scripts/backfill_5y.js: chunking of the backfill window.                *)

\* out.setUTCDate(out.getUTCDate() + days)
addDays(d, days) ==
  DateUTC(getUTCFullYear(d), getUTCMonth(d), getUTCDate(d) + days)

RECURSIVE chunkLoop(_, _, _, _)
chunkLoop(cur, endUTC, chunkDays, ranges) ==
  IF cur <= endUTC
  THEN LET chunkEnd == addDays(cur, chunkDays - 1)
           realEnd  == IF chunkEnd <= endUTC THEN chunkEnd ELSE endUTC
       IN  chunkLoop(addDays(realEnd, 1), endUTC, chunkDays,
                     Append(ranges, <<cur, realEnd>>))
  ELSE ranges

\* chunkRanges with the last chunk not cut at the end of the window.
RECURSIVE chunkLoopNoClamp(_, _, _, _)
chunkLoopNoClamp(cur, endUTC, chunkDays, ranges) ==
  IF cur <= endUTC
  THEN LET chunkEnd == addDays(cur, chunkDays - 1)
       IN  chunkLoopNoClamp(addDays(chunkEnd, 1), endUTC, chunkDays,
                            Append(ranges, <<cur, chunkEnd>>))
  ELSE ranges

chunkRangesNoClamp(startUTC, endUTC, chunkDays) ==
  chunkLoopNoClamp(startUTC, endUTC, chunkDays, <<>>)

chunkRanges(startUTC, endUTC, chunkDays) ==
  chunkLoop(startUTC, endUTC, chunkDays, <<>>)

-----------------------------------------------------------------------------
(* ISO date strings.                                                       *)

\* fmt (backfill_5y.js), fmtDateUTC (app.js), todayUtcDateString
\* (update_daily.js): `${y}-${pad2(m)}-${pad2(day)}`, as the number YYYYMMDD.
fmt(d) ==
  getUTCFullYear(d) * 10000 + (getUTCMonth(d) + 1) * 100 + getUTCDate(d)

\* s.split("-").map(Number), then Date.UTC(y, m - 1, d).
parseISODate(s) ==
  LET y == s \div 10000
      m == (s \div 100) % 100
      d == s % 100
  IN  DateUTC(y, m - 1, d)

-----------------------------------------------------------------------------
(* app.js: the start of the chart's date window.                           *)

\* d.setUTCMonth(month): the date keeps its day of the month, which carries
\* over into the next month when the target month is shorter.
setUTCMonth(d, month) == DateUTC(getUTCFullYear(d), month, getUTCDate(d))

\* d.setUTCFullYear(year)
setUTCFullYear(d, year) == DateUTC(year, getUTCMonth(d), getUTCDate(d))

\* rangeStart(range), with utcNow the UTC midnight of new Date().
rangeStart(range, utcNow) ==
  CASE range = "1d"  -> utcNow - 1
    [] range = "3d"  -> utcNow - 3
    [] range = "1w"  -> utcNow - 7
    [] range = "1m"  -> setUTCMonth(utcNow, getUTCMonth(utcNow) - 1)
    [] range = "3m"  -> setUTCMonth(utcNow, getUTCMonth(utcNow) - 3)
    [] range = "6m"  -> setUTCMonth(utcNow, getUTCMonth(utcNow) - 6)
    [] range = "1y"  -> setUTCFullYear(utcNow, getUTCFullYear(utcNow) - 1)
    [] range = "5y"  -> setUTCFullYear(utcNow, getUTCFullYear(utcNow) - 5)
    [] range = "ytd" -> DateUTC(getUTCFullYear(utcNow), 0, 1)
    [] OTHER -> DateUTC(getUTCFullYear(utcNow) - 5, getUTCMonth(utcNow),
                        getUTCDate(utcNow))

-----------------------------------------------------------------------------
(* JavaScript values of rates and chart points.  A finite number is the    *)
(* exact fraction n/d in lowest terms with d > 0 (the rounding of binary   *)
(* floating point is not modelled, nor is the sign of zero); the other     *)
(* kinds are NaN, +Infinity, -Infinity, a string, null and undefined.      *)

Fin(n)    == [k |-> "fin",  n |-> n, d |-> 1]
NaN       == [k |-> "nan",  n |-> 0, d |-> 1]
PInf      == [k |-> "pinf", n |-> 0, d |-> 1]
NInf      == [k |-> "ninf", n |-> 0, d |-> 1]
Str       == [k |-> "str",  n |-> 0, d |-> 1]
Null      == [k |-> "null", n |-> 0, d |-> 1]
Undefined == [k |-> "undefined", n |-> 0, d |-> 1]

Abs(x) == IF x < 0 THEN -x ELSE x

RECURSIVE GCD(_, _)
GCD(a, b) == IF b = 0 THEN a ELSE GCD(b, a % b)

\* The fraction n/d (d # 0) in lowest terms with a positive denominator.
Frac(n, d) ==
  LET g == GCD(Abs(n), Abs(d))
      s == IF d < 0 THEN -1 ELSE 1
  IN  [k |-> "fin", n |-> (s * n) \div g, d |-> Abs(d) \div g]

\* -1, 0 or 1 for a number that is not NaN.
Sign(a) ==
  CASE a.k = "pinf" -> 1
    [] a.k = "ninf" -> -1
    [] OTHER -> IF a.n > 0 THEN 1 ELSE IF a.n < 0 THEN -1 ELSE 0

InfOf(s) == IF s < 0 THEN NInf ELSE PInf

typeofNumber(v) == v.k \in {"fin", "nan", "pinf", "ninf"}
isFinite(v)     == v.k = "fin"

\* a / b on numbers: division by zero raises nothing, it gives NaN or an
\* infinity.
JsDiv(a, b) ==
  CASE a.k = "nan" \/ b.k = "nan" -> NaN
    [] a.k = "fin" /\ b.k = "fin" ->
         IF b.n = 0
         THEN (IF a.n = 0 THEN NaN ELSE InfOf(Sign(a)))
         ELSE Frac(a.n * b.d, a.d * b.n)
    [] a.k = "fin" -> Fin(0)
    [] b.k = "fin" -> InfOf(Sign(a) * (IF Sign(b) < 0 THEN -1 ELSE 1))
    [] OTHER -> NaN

\* a * b on numbers.
JsMul(a, b) ==
  CASE a.k = "nan" \/ b.k = "nan" -> NaN
    [] a.k = "fin" /\ b.k = "fin" -> Frac(a.n * b.n, a.d * b.d)
    [] OTHER -> IF Sign(a) * Sign(b) = 0 THEN NaN ELSE InfOf(Sign(a) * Sign(b))

-----------------------------------------------------------------------------
(* app.js: normalisation of one symbol's values.                           *)

\* normalize without the test for a zero base.
normalizeNoZeroGuard(values) ==
  IF Len(values) = 0 THEN values
  ELSE LET base == values[1]
       IN  IF ~isFinite(base) THEN values
           ELSE [i \in 1..Len(values) |-> JsMul(JsDiv(values[i], base), Fin(100))]

normalize(values) ==
  IF Len(values) = 0 THEN values
  ELSE LET base == values[1]
       IN  IF ~isFinite(base) \/ base = Fin(0) THEN values
           ELSE [i \in 1..Len(values) |-> JsMul(JsDiv(values[i], base), Fin(100))]

-----------------------------------------------------------------------------
(* Rows of the series store.  A row is [date |-> ISO date, rates |-> a     *)
(* function from symbol codes to values]; rows are kept in sequences.      *)

\* rates[k], rates?.[k]: undefined for a key the object does not hold.
Get(rates, k) == IF k \in DOMAIN rates THEN rates[k] ELSE Undefined

Row(date, rates) == [date |-> date, rates |-> rates]

\* a.date.localeCompare(b.date) < 0 on ISO date strings.
DateBefore(a, b) == a.date < b.date

\* Array.prototype.sort with the comparator (a, b) => a.date.localeCompare(b.date):
\* a stable sort, here by insertion from the left.
RECURSIVE InsertSorted(_, _)
InsertSorted(sorted, r) ==
  IF sorted = <<>> THEN <<r>>
  ELSE IF DateBefore(r, sorted[Len(sorted)])
       THEN Append(InsertSorted(SubSeq(sorted, 1, Len(sorted) - 1), r),
                   sorted[Len(sorted)])
       ELSE Append(sorted, r)

RECURSIVE SortFrom(_, _, _)
SortFrom(rows, i, acc) ==
  IF i > Len(rows) THEN acc ELSE SortFrom(rows, i + 1, InsertSorted(acc, rows[i]))

sortByDate(rows) == SortFrom(rows, 1, <<>>)

\* rows.findIndex(r => r.date === date), 1-based; 0 when there is none
\* (JavaScript's -1).
findIndex(rows, date) ==
  IF \E i \in 1..Len(rows) : rows[i].date = date
  THEN CHOOSE i \in 1..Len(rows) :
         /\ rows[i].date = date
         /\ \A j \in 1..(i - 1) : rows[j].date # date
  ELSE 0

\* Map.prototype.set(r.date, r) on a Map held as the sequence of its values in
\* insertion order: a key the Map holds keeps its place and takes the new value.
mapSet(byDate, r) ==
  LET idx == findIndex(byDate, r.date)
  IN  IF idx > 0 THEN [byDate EXCEPT ![idx] = r] ELSE Append(byDate, r)

RECURSIVE mapSetAll(_, _, _)
mapSetAll(byDate, rows, i) ==
  IF i > Len(rows) THEN byDate ELSE mapSetAll(mapSet(byDate, rows[i]), rows, i + 1)

-----------------------------------------------------------------------------
(* scripts/backfill_5y.js: merge of the fetched rows into the store.       *)

\* mergeRows that concatenates and sorts, without the Map keyed by date.
mergeRowsConcat(existingRows, newRows) == sortByDate(existingRows \o newRows)

\* mergeRows that unions the rates of an incoming row with those of the
\* existing row of its date.
mergeRowsDeep(existingRows, newRows) ==
  LET seeded == mapSetAll(<<>>, existingRows, 1)
      deep(r) ==
        LET idx == findIndex(seeded, r.date)
        IN  IF idx = 0 THEN r
            ELSE Row(r.date,
                     [k \in DOMAIN seeded[idx].rates \cup DOMAIN r.rates |->
                        IF k \in DOMAIN r.rates THEN r.rates[k]
                        ELSE seeded[idx].rates[k]])
  IN  sortByDate(mapSetAll(seeded, [i \in 1..Len(newRows) |-> deep(newRows[i])], 1))

mergeRows(existingRows, newRows) ==
  LET byDate == mapSetAll(mapSetAll(<<>>, existingRows, 1), newRows, 1)
  IN  sortByDate(byDate)

-----------------------------------------------------------------------------
(* scripts/update_daily.js: today's row.                                   *)

\* appendOrReplaceRow that always pushes the row.
appendOrReplaceRowPush(rows, date, rates) ==
  sortByDate(Append(rows, Row(date, rates)))

\* appendOrReplaceRow without the sort.
appendOrReplaceRowNoSort(rows, date, rates) ==
  LET idx == findIndex(rows, date)
  IN  IF idx > 0 THEN [rows EXCEPT ![idx] = Row(date, rates)]
      ELSE Append(rows, Row(date, rates))

\* appendOrReplaceRow(series, date, rates): the new value of series.rows.
appendOrReplaceRow(rows, date, rates) ==
  LET idx == findIndex(rows, date)
      row == Row(date, rates)
  IN  sortByDate(IF idx > 0 THEN [rows EXCEPT ![idx] = row] ELSE Append(rows, row))

-----------------------------------------------------------------------------
(* Specification of chunkRanges: one call on a bounded window.             *)

MaxSpan      == 6     \* the window holds at most MaxSpan + 1 days
MaxChunkDays == 4     \* chunk sizes 1..MaxChunkDays

\* The windows start before the leap day of 2024 and before the end of 2023.
ChunkWindowStarts == { DateUTC(2024, 1, 27), DateUTC(2023, 11, 29) }

ChunkInit ==
  /\ \/ /\ cStart \in ChunkWindowStarts
        /\ cEnd \in (cStart - 1)..(cStart + MaxSpan)
        /\ cDays \in 1..MaxChunkDays
     \/ /\ cStart = DateUTC(2021, 0, 1)
        /\ cEnd = DateUTC(2024, 11, 31)
        /\ cDays = 365
  /\ cOut = <<>>
  /\ cDone = FALSE
  /\ RangeIdle /\ NormIdle /\ MergeIdle /\ StoreIdle /\ UiIdle

ChunkCall ==
  /\ ~cDone
  /\ cOut' = chunkRanges(cStart, cEnd, cDays)
  /\ cDone' = TRUE
  /\ UNCHANGED <<cStart, cEnd, cDays, rangeVars, normVars, mergeVars, storeVars, uiVars>>

ChunkNext == ChunkCall

SpecChunk == ChunkInit /\ [][ChunkNext]_vars

\* C6: for start <= end and C >= 1 the chunks of chunkRanges(start, end, C)
\* partition [start, end]: the first starts at start, the last ends at end,
\* each next chunk starts the day after the previous one ends, every chunk
\* spans between 1 and C days, and every date of the window lies in exactly
\* one chunk.
C6_ChunksPartitionWindow ==
  (cDone /\ cStart <= cEnd /\ cDays >= 1) =>
    /\ Len(cOut) >= 1
    /\ cOut[1][1] = cStart
    /\ cOut[Len(cOut)][2] = cEnd
    /\ \A i \in 1..(Len(cOut) - 1) : cOut[i + 1][1] = cOut[i][2] + 1
    /\ \A i \in 1..Len(cOut) :
         /\ cOut[i][2] - cOut[i][1] + 1 >= 1
         /\ cOut[i][2] - cOut[i][1] + 1 <= cDays
    /\ \A day \in cStart..cEnd :
         Cardinality({i \in 1..Len(cOut) : cOut[i][1] <= day /\ day <= cOut[i][2]}) = 1

\* A window that does not divide into whole chunks has been chunked: the last
\* chunk is shorter than the others.
C6_Witness ==
  /\ cDone
  /\ cStart <= cEnd
  /\ Len(cOut) >= 2
  /\ cOut[Len(cOut)][2] - cOut[Len(cOut)][1] + 1 < cDays
  /\ cOut[1][2] - cOut[1][1] + 1 = cDays

-----------------------------------------------------------------------------
(* Specification of rangeStart: one call for a day and a range code.       *)

RangeYears == 2   \* "now" is drawn from the RangeYears years that start with 2023

\* The codes of the range control, and two codes it does not know.
RangeCodes == {"1d", "3d", "1w", "1m", "3m", "6m", "1y", "5y", "ytd", "max", ""}

RangeInit ==
  /\ rNow \in DateUTC(2023, 0, 1)..(DateUTC(2023 + RangeYears, 0, 1) - 1)
  /\ rCode \in RangeCodes
  /\ rOut = 0
  /\ rDone = FALSE
  /\ ChunkIdle /\ NormIdle /\ MergeIdle /\ StoreIdle /\ UiIdle

RangeCall ==
  /\ ~rDone
  /\ rOut' = rangeStart(rCode, rNow)
  /\ rDone' = TRUE
  /\ UNCHANGED <<rNow, rCode, chunkVars, normVars, mergeVars, storeVars, uiVars>>

RangeNext == RangeCall

SpecRange == RangeInit /\ [][RangeNext]_vars

IsLeap(y) == (y % 4 = 0 /\ y % 100 # 0) \/ y % 400 = 0

DaysInMonth(y, m) ==
  CASE m \in {4, 6, 9, 11} -> 30
    [] m = 2 -> IF IsLeap(y) THEN 29 ELSE 28
    [] OTHER -> 31

\* The day `months` calendar months before `now`: the same day of the month,
\* or the last day of the target month when it has no such day.
MonthsBeforeClamped(now, months) ==
  LET c     == CivilFromDays(now)
      total == c.y * 12 + (c.m - 1) - months
      ty    == total \div 12
      tm    == (total % 12) + 1
      last  == DaysInMonth(ty, tm)
  IN  DaysFromCivil(ty, tm, IF c.d <= last THEN c.d ELSE last)

\* The table of the range codes.
RangeTable(range, now) ==
  CASE range = "1d"  -> now - 1
    [] range = "3d"  -> now - 3
    [] range = "1w"  -> now - 7
    [] range = "1m"  -> MonthsBeforeClamped(now, 1)
    [] range = "3m"  -> MonthsBeforeClamped(now, 3)
    [] range = "6m"  -> MonthsBeforeClamped(now, 6)
    [] range = "1y"  -> MonthsBeforeClamped(now, 12)
    [] range = "ytd" -> DaysFromCivil(CivilFromDays(now).y, 1, 1)
    [] OTHER -> MonthsBeforeClamped(now, 60)

\* C7: for every day "now" and every range code, rangeStart returns a date
\* <= now that matches the table: 1d/3d/1w are 1/3/7 days back, 1m/3m/6m and
\* 1y/5y are calendar months and years back with the day of the month clamped
\* to the last day of the target month, ytd is January 1, and an unknown code
\* gives what 5y gives.
C7_RangeStartMatchesTable ==
  rDone =>
    /\ rOut <= rNow
    /\ rOut = RangeTable(rCode, rNow)
    /\ (rCode \notin {"1d", "3d", "1w", "1m", "3m", "6m", "1y", "ytd"}
          => rOut = rangeStart("5y", rNow))

-----------------------------------------------------------------------------
(* Specification of normalize: one call on a bounded sequence.             *)

MaxNormLen == 3   \* the sequences hold at most MaxNormLen values

NormValues ==
  {Fin(0), Fin(5), Fin(10), Fin(25), Fin(50), Fin(100), Fin(-2), NaN, PInf}

NormInit ==
  /\ nIn \in UNION {[1..n -> NormValues] : n \in 0..MaxNormLen}
  /\ nOut = <<>>
  /\ nDone = FALSE
  /\ ChunkIdle /\ RangeIdle /\ MergeIdle /\ StoreIdle /\ UiIdle

NormCall ==
  /\ ~nDone
  /\ nOut' = normalize(nIn)
  /\ nDone' = TRUE
  /\ UNCHANGED <<nIn, chunkVars, rangeVars, mergeVars, storeVars, uiVars>>

NormNext == NormCall

SpecNorm == NormInit /\ [][NormNext]_vars

\* out = v / base * 100 for a base that is finite and not zero, stated without
\* a division: by cross-multiplication for a finite v, by kind otherwise.
IsScaled(out, v, base) ==
  CASE v.k = "fin" ->
         /\ out.k = "fin"
         /\ out.d > 0
         /\ out.n * (base.n * v.d) = out.d * (v.n * 100 * base.d)
    [] v.k = "nan" -> out.k = "nan"
    [] OTHER -> out.k = (IF (v.k = "pinf") = (base.n > 0) THEN "pinf" ELSE "ninf")

\* C10: normalize never divides by zero: for an empty sequence, or one whose
\* first value is 0 or not finite, it returns the sequence unchanged;
\* otherwise it returns a sequence of the same length whose i-th value is
\* values[i] / values[0] * 100, so the first value is 100 and finite values
\* stay finite.
C10_NormalizeGuarded ==
  nDone =>
    IF Len(nIn) = 0 \/ nIn[1].k # "fin" \/ nIn[1].n = 0
    THEN nOut = nIn
    ELSE /\ Len(nOut) = Len(nIn)
         /\ nOut[1] = Fin(100)
         /\ \A i \in 1..Len(nIn) : IsScaled(nOut[i], nIn[i], nIn[1])

\* Both examples have been computed: [50, 100, 25] gives [100, 200, 50] and
\* the zero base of [0, 5, 10] leaves the sequence alone.
C10_Witness ==
  /\ nDone
  /\ \/ /\ nIn = <<Fin(50), Fin(100), Fin(25)>>
        /\ nOut = <<Fin(100), Fin(200), Fin(50)>>
     \/ /\ nIn = <<Fin(0), Fin(5), Fin(10)>>
        /\ nOut = nIn

-----------------------------------------------------------------------------
(* Specification of mergeRows: one call on bounded row sequences, which    *)
(* need be neither sorted nor free of repeated dates.                      *)

MaxMergeLen == 2   \* existing and incoming hold at most MaxMergeLen rows each

MergeDates == {20231231, 20240101, 20240102}
MergeRates == { [XAU |-> Fin(10)], [XAG |-> Fin(5)] }
MergeRowSet == {Row(dt, rt) : dt \in MergeDates, rt \in MergeRates}
MergeSeqs == UNION {[1..n -> MergeRowSet] : n \in 0..MaxMergeLen}

MergeInit ==
  /\ mE \in MergeSeqs
  /\ mI \in MergeSeqs
  /\ mOut = <<>>
  /\ mDone = FALSE
  /\ ChunkIdle /\ RangeIdle /\ NormIdle /\ StoreIdle /\ UiIdle

MergeCall ==
  /\ ~mDone
  /\ mOut' = mergeRows(mE, mI)
  /\ mDone' = TRUE
  /\ UNCHANGED <<mE, mI, chunkVars, rangeVars, normVars, storeVars, uiVars>>

MergeNext == MergeCall

SpecMerge == MergeInit /\ [][MergeNext]_vars

DatesOf(rows) == {rows[i].date : i \in 1..Len(rows)}

\* The last row of `rows` with the date.
LastRowOf(rows, date) ==
  rows[CHOOSE i \in 1..Len(rows) :
         /\ rows[i].date = date
         /\ \A j \in (i + 1)..Len(rows) : rows[j].date # date]

RowsAt(rows, date) == {i \in 1..Len(rows) : rows[i].date = date}

\* C2: mergeRows is idempotent: merging the same incoming rows into the
\* result of the merge gives that result again.
C2_MergeIdempotent ==
  mDone => mergeRows(mOut, mI) = mOut

\* An incoming sequence with a repeated date and a date the existing rows
\* hold has been merged.
C2_Witness ==
  /\ mDone
  /\ Len(mI) = 2 /\ mI[1].date = mI[2].date /\ mI[1] # mI[2]
  /\ mI[1].date \in DatesOf(mE)
  /\ Len(mOut) = 2

\* C3: mergeRows replaces whole rows by date: the result holds, for every
\* incoming date, exactly the incoming row of that date (the last one when the
\* date is repeated) and none of the existing row's rates; for every date only
\* the existing rows hold, the existing row unchanged; and no other date.
C3_MergeReplacesRows ==
  mDone =>
    /\ DatesOf(mOut) = DatesOf(mE) \cup DatesOf(mI)
    /\ \A dt \in DatesOf(mI) :
         /\ Cardinality(RowsAt(mOut, dt)) = 1
         /\ LastRowOf(mOut, dt) = LastRowOf(mI, dt)
    /\ \A dt \in DatesOf(mE) \ DatesOf(mI) :
         /\ Cardinality(RowsAt(mOut, dt)) = 1
         /\ LastRowOf(mOut, dt) = LastRowOf(mE, dt)

\* The example: the XAU row of 2024-01-01 has been replaced by the XAG row,
\* and XAU is gone.
C3_Witness ==
  /\ mDone
  /\ mE = <<Row(20240101, [XAU |-> Fin(10)])>>
  /\ mI = <<Row(20240101, [XAG |-> Fin(5)])>>
  /\ mOut = <<Row(20240101, [XAG |-> Fin(5)])>>

-----------------------------------------------------------------------------
(* scripts/update_daily.js and scripts/backfill_5y.js: the two writers of  *)
(* data/series.json and data/meta.json.  Of the series document the rows   *)
(* are modelled; its base and metals fields are rewritten from the         *)
(* configuration on every write.                                           *)

\* METALPRICE_METALS as configured for the runs checked here.
CFG_METALS == <<"XAU", "XAG">>

KeysOf(seq) == {seq[i] : i \in 1..Len(seq)}

\* validateRates(rates): TRUE when it returns, FALSE when it throws.
validateRates(rates) ==
  \A i \in 1..Len(CFG_METALS) :
    LET v == Get(rates, CFG_METALS[i])
    IN  ~(~typeofNumber(v) \/ ~isFinite(v) \/ (v.k = "fin" /\ v.n <= 0))

\* The rates of one entry of a timeframe response that the backfill keeps:
\* those of the configured symbols that are finite numbers.
cleanRates(rates) ==
  [m \in {k \in KeysOf(CFG_METALS) :
            typeofNumber(Get(rates, k)) /\ isFinite(Get(rates, k))} |->
     rates[m]]

\* The rows pushed onto allRows for the entries of one response, in the order
\* of Object.entries: an entry whose value is no object is skipped, and so is
\* one that keeps no rate.
RECURSIVE cleanEntries(_, _, _)
cleanEntries(entries, i, rows) ==
  IF i > Len(entries) THEN rows
  ELSE LET e == entries[i]
       IN  IF ~e.isObject THEN cleanEntries(entries, i + 1, rows)
           ELSE IF DOMAIN cleanRates(e.rates) # {}
                THEN cleanEntries(entries, i + 1,
                                  Append(rows, Row(e.date, cleanRates(e.rates))))
                ELSE cleanEntries(entries, i + 1, rows)

\* ratesByDate that defaults to an empty object: data.rates || data.data || {}.
ratesByDateOrEmpty(data) ==
  IF data.rates.k # "absent" THEN data.rates
  ELSE IF data.data.k # "absent" THEN data.data
  ELSE [k |-> "object", entries |-> <<>>]

\* data.rates || data.data || null.  A field of the response is absent (or
\* falsy), a truthy value that is no object, or an object with its entries.
ratesByDate(data) ==
  IF data.rates.k # "absent" THEN data.rates
  ELSE IF data.data.k # "absent" THEN data.data
  ELSE [k |-> "absent", entries |-> <<>>]

-----------------------------------------------------------------------------
(* The external source.                                                    *)

Day0 == DateUTC(2024, 1, 28)   \* the first day of the runs: 2024-02-28

R_10_5  == [XAU |-> Fin(10), XAG |-> Fin(5)]
R_20_7x == [XAU |-> Fin(20), XAG |-> Fin(7), USDXAU |-> Frac(1, 20)]

\* Responses of /latest: the HTTP status is ok or not, and json.rates is an
\* object or missing.
LatestResponses ==
  { [ok |-> FALSE, hasRates |-> FALSE, rates |-> <<>>],
    [ok |-> TRUE,  hasRates |-> FALSE, rates |-> <<>>] }
  \cup
  { [ok |-> TRUE, hasRates |-> TRUE, rates |-> r] :
      r \in { R_10_5, R_20_7x,
              [XAU |-> Fin(10)],
              [XAU |-> Fin(0),  XAG |-> Fin(5)],
              [XAU |-> Fin(10), XAG |-> Fin(-3)],
              [XAU |-> NaN,     XAG |-> Fin(5)],
              [XAU |-> Fin(10), XAG |-> PInf],
              [XAU |-> Str,     XAG |-> Fin(5)],
              [XAU |-> Fin(10), XAG |-> Null] } }

Absent       == [k |-> "absent", entries |-> <<>>]
Scalar       == [k |-> "scalar", entries |-> <<>>]
Object(ents) == [k |-> "object", entries |-> ents]
Entry(date, rates) == [date |-> date, isObject |-> TRUE, rates |-> rates]
NullEntry(date)    == [date |-> date, isObject |-> FALSE, rates |-> <<>>]

\* Responses of /timeframe: the dates come in the order the source lists them.
TimeframeResponses ==
  { [ok |-> FALSE, rates |-> Absent, data |-> Absent],
    [ok |-> TRUE,  rates |-> Absent, data |-> Absent],
    [ok |-> TRUE,  rates |-> Scalar, data |-> Absent],
    [ok |-> TRUE,
     rates |-> Object(<< Entry(fmt(Day0 + 1), [XAU |-> Fin(0), XAG |-> Str]),
                         Entry(fmt(Day0), [XAU |-> Fin(11), XAG |-> Fin(6)]) >>),
     data |-> Absent],
    [ok |-> TRUE,
     rates |-> Absent,
     data |-> Object(<< Entry(fmt(Day0 + 2), [XAU |-> NaN, XAG |-> PInf]),
                        NullEntry(fmt(Day0)),
                        Entry(fmt(Day0 + 1), R_20_7x) >>)],
    [ok |-> TRUE, rates |-> Object(<<>>), data |-> Absent] }

-----------------------------------------------------------------------------
(* Specification of the store: runs of the daily update and of the         *)
(* backfill, one at a time (a single writer), while the days pass.         *)

NumDays == 2   \* the runs take place on NumDays consecutive days
MaxRuns == 3   \* at most MaxRuns runs of the scripts

BackfillDays == 1825   \* 365 * 5
ChunkDays    == 365

StoreInit ==
  /\ today = Day0
  /\ clock = 0
  /\ pc = "idle"
  /\ \/ /\ seriesExists = FALSE /\ seriesRows = <<>> /\ metaDoc = NoMeta
     \/ /\ seriesExists = TRUE  /\ seriesRows = <<>> /\ metaDoc = NoMeta
     \/ /\ seriesExists = TRUE
        /\ seriesRows = <<Row(fmt(Day0 - 1), R_10_5)>>
        /\ metaDoc = [exists |-> TRUE, last_updated_utc |-> 0, notes |-> FALSE]
  /\ dDate = 0 /\ dRows = <<>> /\ dMeta = NoMeta /\ latest = <<>>
  /\ bRanges = <<>> /\ bIdx = 0 /\ allRows = <<>>
  /\ snapExists = seriesExists /\ snapRows = seriesRows /\ snapMeta = metaDoc
  /\ fetchErr = FALSE /\ outcome = "none"
  /\ dailyDates = {} /\ rerun = FALSE
  /\ ChunkIdle /\ RangeIdle /\ NormIdle /\ MergeIdle /\ UiIdle

\* The variables of the other parts of the program.
pureVars == <<chunkVars, rangeVars, normVars, mergeVars, uiVars>>

\* Midnight UTC passes.
AdvanceDay ==
  /\ today < Day0 + NumDays - 1
  /\ today' = today + 1
  /\ UNCHANGED <<seriesExists, seriesRows, metaDoc, clock, pc, dDate, dRows,
                 dMeta, latest, bRanges, bIdx, allRows, snapExists, snapRows,
                 snapMeta, fetchErr, outcome, dailyDates, rerun, pureVars>>

\* update_daily.js main, up to the await of fetchLatest.
DailyStart ==
  /\ pc = "idle"
  /\ clock < MaxRuns
  /\ clock' = clock + 1
  /\ pc' = "daily"
  /\ dDate' = fmt(today)
  /\ dRows' = IF seriesExists THEN seriesRows ELSE <<>>
  /\ dMeta' = IF metaDoc.exists THEN metaDoc
              ELSE [exists |-> TRUE, last_updated_utc |-> 0, notes |-> FALSE]
  /\ latest' = <<>>
  /\ snapExists' = seriesExists /\ snapRows' = seriesRows /\ snapMeta' = metaDoc
  /\ fetchErr' = FALSE
  /\ outcome' = "running"
  /\ rerun' = FALSE
  /\ UNCHANGED <<seriesExists, seriesRows, metaDoc, today, bRanges, bIdx,
                 allRows, dailyDates, pureVars>>

\* What the daily update is to reject: a failed fetch, or a configured symbol
\* whose rate is missing, no number, not finite or <= 0.
BadLatest(resp) ==
  \/ ~resp.ok
  \/ ~resp.hasRates
  \/ \E m \in KeysOf(CFG_METALS) :
       \/ m \notin DOMAIN resp.rates
       \/ resp.rates[m].k # "fin"
       \/ resp.rates[m].n <= 0

\* fetchLatest returns or throws, and main runs to its end: on a response
\* that is ok and valid the row of `date` is appended or replaced and both
\* documents are written; otherwise main rejects and the process exits.
DailyFetch ==
  /\ pc = "daily"
  /\ \E resp \in LatestResponses :
       /\ fetchErr' = BadLatest(resp)
       /\ IF resp.ok /\ resp.hasRates /\ validateRates(resp.rates)
          THEN /\ seriesRows' = appendOrReplaceRow(dRows, dDate, resp.rates)
               /\ seriesExists' = TRUE
               /\ metaDoc' = [dMeta EXCEPT !.last_updated_utc = clock]
               /\ latest' = resp.rates
               /\ outcome' = IF findIndex(dRows, dDate) > 0
                             THEN "replaced" ELSE "appended"
               /\ rerun' = (dDate \in dailyDates)
               /\ dailyDates' = dailyDates \cup {dDate}
          ELSE /\ outcome' = "daily-aborted"
               /\ UNCHANGED <<seriesRows, seriesExists, metaDoc, latest,
                              dailyDates, rerun>>
  /\ pc' = "idle"
  /\ dRows' = <<>>
  /\ dMeta' = NoMeta
  /\ UNCHANGED <<today, clock, dDate, bRanges, bIdx, allRows, snapExists,
                 snapRows, snapMeta, pureVars>>

\* backfill_5y.js main, up to the first await of fetchTimeframe.
BackfillStart ==
  /\ pc = "idle"
  /\ clock < MaxRuns
  /\ clock' = clock + 1
  /\ pc' = "backfill"
  /\ bRanges' = chunkRanges(addDays(today, -BackfillDays), today, ChunkDays)
  /\ bIdx' = 1
  /\ allRows' = <<>>
  /\ snapExists' = seriesExists /\ snapRows' = seriesRows /\ snapMeta' = metaDoc
  /\ fetchErr' = FALSE
  /\ outcome' = "running"
  /\ rerun' = FALSE
  /\ UNCHANGED <<seriesExists, seriesRows, metaDoc, today, dDate, dRows, dMeta,
                 latest, dailyDates, pureVars>>

\* What the backfill is to reject: a failed fetch, or a response with no
\* object of rates under either of its keys.
BadTimeframe(resp) ==
  \/ ~resp.ok
  \/ (resp.rates.k # "object" /\ resp.data.k # "object")

\* The fetch of chunk bIdx returns or throws; the loop body runs and the next
\* chunk is awaited.
BackfillFetch ==
  /\ pc = "backfill"
  /\ bIdx <= Len(bRanges)
  /\ \E resp \in TimeframeResponses :
       /\ fetchErr' = (fetchErr \/ BadTimeframe(resp))
       /\ IF resp.ok /\ ratesByDate(resp).k = "object"
          THEN /\ allRows' = cleanEntries(ratesByDate(resp).entries, 1, allRows)
               /\ bIdx' = bIdx + 1
               /\ UNCHANGED <<pc, outcome>>
          ELSE /\ pc' = "idle"
               /\ outcome' = "backfill-aborted"
               /\ allRows' = <<>>
               /\ UNCHANGED bIdx
  /\ UNCHANGED <<seriesExists, seriesRows, metaDoc, today, clock, dDate, dRows,
                 dMeta, latest, bRanges, snapExists, snapRows, snapMeta,
                 dailyDates, rerun, pureVars>>

\* After the last chunk: loadSeries (which throws when data/series.json does
\* not exist), mergeRows, saveSeries, saveMeta.
BackfillCommit ==
  /\ pc = "backfill"
  /\ bIdx > Len(bRanges)
  /\ IF seriesExists
     THEN /\ seriesRows' = mergeRows(seriesRows, allRows)
          /\ metaDoc' = [exists |-> TRUE, last_updated_utc |-> clock, notes |-> TRUE]
          /\ outcome' = "merged"
     ELSE /\ outcome' = "backfill-aborted"
          /\ UNCHANGED <<seriesRows, metaDoc>>
  /\ pc' = "idle"
  /\ allRows' = <<>>
  /\ UNCHANGED <<seriesExists, today, clock, dDate, dRows, dMeta, latest,
                 bRanges, bIdx, snapExists, snapRows, snapMeta, fetchErr,
                 dailyDates, rerun, pureVars>>

Next ==
  \/ AdvanceDay
  \/ DailyStart
  \/ DailyFetch
  \/ BackfillStart
  \/ BackfillFetch
  \/ BackfillCommit

Spec == StoreInit /\ [][Next]_vars

\* C1: after any sequence of daily updates and backfill merges, starting from
\* an empty store or one that is strictly ascending by date, the rows of the
\* store are strictly ascending by ISO date, so there is at most one row per
\* date.
C1_RowsAscendingUnique ==
  \A i \in 1..Len(seriesRows) : \A j \in 1..Len(seriesRows) :
    i < j => seriesRows[i].date < seriesRows[j].date

\* A daily update has written today's row into a store that a backfill left
\* with a row of a later date, so the new row is not the last one.
C1_Witness ==
  /\ outcome = "appended"
  /\ Len(seriesRows) >= 2
  /\ seriesRows[Len(seriesRows)].date > dDate
  /\ \E i \in 1..Len(seriesRows) : seriesRows[i].date = dDate

DocumentsAsAtStart ==
  /\ seriesExists = snapExists
  /\ seriesRows = snapRows
  /\ metaDoc = snapMeta

\* C4: persistence is all-or-nothing on fetch and validation errors: when a
\* chunk's fetch fails or its response holds no rates object (backfill), or
\* the latest fetch fails or a configured symbol's rate is missing, no number,
\* not finite or <= 0 (daily update), the run aborts and the series and meta
\* documents are as they were when the run started, however many chunks were
\* fetched before.
C4_NoWriteOnError ==
  /\ fetchErr => (pc = "idle" /\ outcome \in {"daily-aborted", "backfill-aborted"})
  /\ (fetchErr \/ pc # "idle") => DocumentsAsAtStart

\* A backfill has aborted on its third or a later chunk, after a run that
\* wrote the documents.
C4_Witness ==
  /\ fetchErr
  /\ outcome = "backfill-aborted"
  /\ bIdx >= 3
  /\ seriesRows # <<>>
  /\ metaDoc.last_updated_utc > 0

\* C5: a daily update that succeeds on a UTC date on which a daily update
\* succeeded before (a same-day re-run) leaves exactly one row of that date,
\* with the rates of this run; the rows of the other dates and the number of
\* rows are as they were after the earlier run.  The same holds of any daily
\* update that finds a row of its date in the store.
C5_SameDayRerunReplaces ==
  /\ rerun => outcome = "replaced"
  /\ outcome = "replaced" =>
    /\ Len(seriesRows) = Len(snapRows)
    /\ Cardinality(RowsAt(seriesRows, dDate)) = 1
    /\ \A i \in 1..Len(seriesRows) :
         IF seriesRows[i].date = dDate
         THEN seriesRows[i].rates = latest
         ELSE seriesRows[i] = snapRows[i]

\* The second run fetched other rates than the first and the store holds rows
\* of other dates.
C5_Witness ==
  /\ rerun
  /\ outcome = "replaced"
  /\ Len(seriesRows) >= 2
  /\ LastRowOf(snapRows, dDate).rates \in {R_10_5, R_20_7x}
  /\ LastRowOf(snapRows, dDate).rates # latest
  /\ LastRowOf(seriesRows, dDate).rates = latest

\* C9: every rate of every row of the store is a finite number greater than
\* zero.
C9_StoredRatesPositive ==
  \A i \in 1..Len(seriesRows) :
    \A m \in DOMAIN seriesRows[i].rates :
      /\ seriesRows[i].rates[m].k = "fin"
      /\ seriesRows[i].rates[m].n > 0

-----------------------------------------------------------------------------
(* app.js: the chart page.                                                 *)

METALS ==
  << [code |-> "XCU", name |-> "Copper (XCU)"],
     [code |-> "XAU", name |-> "Gold (XAU)"],
     [code |-> "XAG", name |-> "Silver (XAG)"],
     [code |-> "ALU", name |-> "Aluminum (ALU)"],
     [code |-> "XPD", name |-> "Palladium (XPD)"],
     [code |-> "XPT", name |-> "Platinum (XPT)"] >>

MetalCodes == [i \in 1..Len(METALS) |-> METALS[i].code]

\* The codes of `seq` that satisfy the test, in the order of `seq`.
RECURSIVE FilterCodes(_, _, _)
FilterCodes(seq, keep, i) ==
  IF i > Len(seq) THEN <<>>
  ELSE IF seq[i] \in keep THEN <<seq[i]>> \o FilterCodes(seq, keep, i + 1)
       ELSE FilterCodes(seq, keep, i + 1)

\* A JavaScript Set of codes is the sequence of its elements in insertion
\* order, the order in which Array.from and for..of visit them.
setHas(set, code)    == code \in KeysOf(set)
setDelete(set, code) == FilterCodes(set, KeysOf(set) \ {code}, 1)
setAdd(set, code)    == IF setHas(set, code) THEN set ELSE Append(set, code)

\* Number(v) of a value that is neither null nor undefined; the strings of
\* the model are not numeric.
Number(v) == IF v.k = "str" THEN NaN ELSE v

\* filterSeriesByRange(series, range), with utcNow the day of new Date().
RECURSIVE filterSeriesByRange(_, _, _)
filterSeriesByRange(series, range, utcNow) ==
  IF series = <<>> THEN <<>>
  ELSE (IF parseISODate(Head(series).date) >= rangeStart(range, utcNow)
        THEN <<Head(series)>> ELSE <<>>)
       \o filterSeriesByRange(Tail(series), range, utcNow)

\* METALS.find(m => m.code === code)?.name || code
displayName(code) ==
  IF \E i \in 1..Len(METALS) : METALS[i].code = code
  THEN METALS[CHOOSE i \in 1..Len(METALS) : METALS[i].code = code].name
  ELSE code

\* The rows of `filtered` that hold a value of `code` (v == null skips null
\* and undefined).
RECURSIVE rowsWith(_, _)
rowsWith(filtered, code) ==
  IF filtered = <<>> THEN <<>>
  ELSE (IF Get(Head(filtered).rates, code).k \in {"null", "undefined"}
        THEN <<>> ELSE <<Head(filtered)>>)
       \o rowsWith(Tail(filtered), code)

\* The trace of one selected code.
traceOf(st, filtered, code) ==
  LET rows == rowsWith(filtered, code)
      x    == [i \in 1..Len(rows) |-> rows[i].date]
      y    == [i \in 1..Len(rows) |-> Number(rows[i].rates[code])]
  IN  [name |-> displayName(code),
       x |-> x,
       y |-> IF st.normalize THEN normalize(y) ELSE y]

\* buildTraces(): one trace per element of Array.from(state.selected).
buildTraces(st, utcNow) ==
  LET selected == st.selected
      filtered == filterSeriesByRange(st.series, st.range, utcNow)
  IN  [i \in 1..Len(selected) |-> traceOf(st, filtered, selected[i])]

\* The filter texts of the runs checked here, and the metals whose lower-cased
\* name or code includes the text: "al" is in "aluminum (alu)" and in
\* "palladium (xpd)" and in no other name or code.
FilterTexts == {"", "al"}

matchesFilter(code, text) ==
  CASE text = ""   -> TRUE
    [] text = "al" -> code \in {"ALU", "XPD"}
    [] OTHER       -> FALSE

\* mountChips(): the codes of the buttons appended to #chips.
mountChips(st) ==
  FilterCodes(MetalCodes, {c \in KeysOf(MetalCodes) : matchesFilter(c, st.filter)}, 1)

-----------------------------------------------------------------------------
(* Specification of the chart page: the controls are wired, the data       *)
(* loads, and the visitor uses the chips and the controls.  The day of     *)
(* new Date() is UiNow throughout.                                         *)

UiNow == Day0 + 2   \* 2024-03-01

\* The values of the range control used here.
UiRanges == {"5y", "1w"}

\* data/series.json as loaded: sparse rows, and a copper series that starts
\* at zero.
UiSeries ==
  << Row(fmt(UiNow - 30), [XCU |-> Fin(4), XAU |-> Fin(10)]),
     Row(fmt(UiNow - 3),  [XCU |-> Fin(0), XAU |-> Fin(50), XAG |-> Fin(5), XPD |-> Null]),
     Row(fmt(UiNow - 1),  [XCU |-> Fin(5), XAU |-> Fin(100), XPT |-> Fin(7)]),
     Row(fmt(UiNow),      [XCU |-> Fin(10), XAU |-> Fin(25), XAG |-> Fin(10), XPT |-> Fin(14)]) >>

UiInit ==
  /\ state = [selected |-> MetalCodes, range |-> "5y", logScale |-> FALSE,
              normalize |-> TRUE, filter |-> "", series |-> <<>>]
  /\ chips = <<>>
  /\ traces = <<>>
  /\ phase = "loading"
  /\ ChunkIdle /\ RangeIdle /\ NormIdle /\ MergeIdle /\ StoreIdle

nonUiVars == <<chunkVars, rangeVars, normVars, mergeVars, storeVars>>

\* init: loadData resolves, then mountChips() and render().
LoadData ==
  /\ phase = "loading"
  /\ state' = [state EXCEPT !.series = UiSeries]
  /\ chips' = mountChips(state')
  /\ traces' = buildTraces(state', UiNow)
  /\ phase' = "ready"
  /\ UNCHANGED nonUiVars

\* init: a fetch of loadData rejects; the chips are not mounted by init.
LoadFails ==
  /\ phase = "loading"
  /\ phase' = "failed"
  /\ UNCHANGED <<state, chips, traces, nonUiVars>>

\* The click handler of the chip of metal m.
ChipClick ==
  /\ \E i \in 1..Len(chips) :
       LET code == chips[i]
       IN  /\ state' = [state EXCEPT !.selected =
                          IF setHas(state.selected, code)
                          THEN setDelete(state.selected, code)
                          ELSE setAdd(state.selected, code)]
           /\ traces' = buildTraces(state', UiNow)
  /\ UNCHANGED <<chips, phase, nonUiVars>>

\* The change handler of #range.
RangeChange ==
  /\ \E v \in UiRanges :
       /\ state' = [state EXCEPT !.range = v]
       /\ traces' = buildTraces(state', UiNow)
  /\ UNCHANGED <<chips, phase, nonUiVars>>

\* The change handler of #logScale.
LogScaleChange ==
  /\ state' = [state EXCEPT !.logScale = ~state.logScale]
  /\ traces' = buildTraces(state', UiNow)
  /\ UNCHANGED <<chips, phase, nonUiVars>>

\* The change handler of #normalize.
NormalizeChange ==
  /\ state' = [state EXCEPT !.normalize = ~state.normalize]
  /\ traces' = buildTraces(state', UiNow)
  /\ UNCHANGED <<chips, phase, nonUiVars>>

\* The input handler of #filter: the chips are mounted again, nothing is
\* rendered.
FilterInput ==
  /\ \E t \in FilterTexts :
       /\ state' = [state EXCEPT !.filter = t]
       /\ chips' = mountChips(state')
  /\ UNCHANGED <<traces, phase, nonUiVars>>

UiNext ==
  \/ LoadData
  \/ LoadFails
  \/ ChipClick
  \/ RangeChange
  \/ LogScaleChange
  \/ NormalizeChange
  \/ FilterInput

SpecUi == UiInit /\ [][UiNext]_vars

\* C8: after any sequence of chip toggles, buildTraces returns one trace per
\* selected symbol in the display order of METALS (XCU, XAU, XAG, ALU, XPD,
\* XPT, restricted to the selected ones), whatever the order of the toggles.
C8_TracesInDisplayOrder ==
  phase = "ready" =>
    LET shown == FilterCodes(MetalCodes, KeysOf(state.selected), 1)
        built == buildTraces(state, UiNow)
    IN  /\ traces = built
        /\ Len(built) = Len(shown)
        /\ \A i \in 1..Len(shown) : built[i].name = displayName(shown[i])

====
